---- MODULE Spec2Model ----
(***************************************************************************)
(* Listing search and ranking engine of the discovery server               *)
(* (src/unnamed/part_001): getExchangeRatesToUSD, Listing.index,           *)
(* Listing.updateScoreTags and Listing.search, run against an index engine *)
(* (Elasticsearch) and a rate source (Redis).                              *)
(***************************************************************************)
EXTENDS Integers, Sequences, FiniteSets, TLC

VARIABLES
    index,               \* the index engine's store: listing id -> document
    redis,               \* the rate source: loadable?, reply per currency code
    searchPc,            \* position of the Listing.search call
    searchArgs,          \* its arguments
    esQuery,             \* the ranked boolean query
    esAggregationQuery,  \* the aggregation query
    searchLookups,       \* the rate-source keys getSortQuery asked for
    exchangeRates,       \* what getExchangeRatesToUSD returned to getSortQuery
    sortQuery,           \* what getSortQuery returned
    searchRequest,       \* the ranked request: status, body, response
    aggregationRequest,  \* the aggregation request: status, body, response
    searchResult,        \* what search returned to its caller
    issued,              \* log of the requests in the order they were issued
    updPc,               \* position of each updateScoreTags call
    updArgs,             \* its arguments
    updListing,          \* the listing it read and returns
    updateRequests,      \* partial updates handed to the client
    idxPc,               \* position of the Listing.index call
    idxArgs,             \* its arguments
    ratesPc,             \* position of a direct getExchangeRatesToUSD call
    ratesCurrencies,     \* its argument
    ratesLookups,        \* the rate-source keys it asked for
    ratesResult          \* what it returned

searchVars == <<searchPc, searchArgs, esQuery, esAggregationQuery, searchLookups,
                exchangeRates, sortQuery, searchRequest, aggregationRequest, searchResult, issued>>
updVars == <<updPc, updArgs, updListing, updateRequests>>
idxVars == <<idxPc, idxArgs>>
ratesVars == <<ratesPc, ratesCurrencies, ratesLookups, ratesResult>>
vars == <<index, redis, searchVars, updVars, idxVars, ratesVars>>

(***************************************************************************)
(* Values                                                                  *)
(***************************************************************************)
Undefined == "<undefined>"
Null == "<null>"
Throw == "<throw>"

\* Longest filter list handed to search.
MaxFilters == 2

LISTINGS_INDEX == "listings"
LISTINGS_TYPE == "listing"

\* The currency list search hands to getExchangeRatesToUSD.
currencies ==
    <<"fiat-CNY", "fiat-EUR", "fiat-GBP", "fiat-JPY", "fiat-KRW", "fiat-SGD",
      "fiat-USD", "token-DAI", "token-ETH">>

\* currency.split('-'): the parts of the currency keys the model uses.
\* A key without a dash has a single part.
Split(currency) ==
    CASE currency = "fiat-CNY" -> <<"fiat", "CNY">>
      [] currency = "fiat-EUR" -> <<"fiat", "EUR">>
      [] currency = "fiat-GBP" -> <<"fiat", "GBP">>
      [] currency = "fiat-JPY" -> <<"fiat", "JPY">>
      [] currency = "fiat-KRW" -> <<"fiat", "KRW">>
      [] currency = "fiat-SGD" -> <<"fiat", "SGD">>
      [] currency = "fiat-USD" -> <<"fiat", "USD">>
      [] currency = "token-DAI" -> <<"token", "DAI">>
      [] currency = "token-ETH" -> <<"token", "ETH">>
      [] currency = "token-USD" -> <<"token", "USD">>
      [] OTHER -> <<currency>>

\* splitCurrency[1]
ResolvedCurrency(currency) ==
    IF Len(Split(currency)) >= 2 THEN Split(currency)[2] ELSE Undefined

\* The codes the rate source is asked about.
Codes == {"CNY", "EUR", "GBP", "JPY", "KRW", "SGD", "DAI", "ETH", Undefined}

\* The table the catch block of getExchangeRatesToUSD returns.
FallbackRates ==
    [c \in {currencies[i] : i \in 1..Len(currencies)} |->
        CASE c = "fiat-CNY" -> "0.14"
          [] c = "fiat-EUR" -> "1.12"
          [] c = "fiat-GBP" -> "1.22"
          [] c = "fiat-JPY" -> "0.0094"
          [] c = "fiat-KRW" -> "0.00082"
          [] c = "fiat-SGD" -> "0.72"
          [] c = "fiat-USD" -> "1.0"
          [] c = "token-DAI" -> "1.0"
          [] c = "token-ETH" -> "200.0"]

(***************************************************************************)
(* getExchangeRatesToUSD                                                   *)
(***************************************************************************)
\* Every currency is looked up, USD included.
LookupIndicesAll(cs) == 1..Len(cs)

\* The indices of currencies for which the map callback calls getAsync.
LookupIndices(cs) == {i \in 1..Len(cs) : ResolvedCurrency(cs[i]) # "USD"}

\* The rate-source keys asked for: `${resolvedCurrency}-USD_price`.
LookupKeys(cs) == {<<ResolvedCurrency(cs[i]), "-USD_price">> : i \in LookupIndices(cs)}

\* One element of `promises`: the literal '1' or the reply of the rate source.
PromiseValue(currency, r) ==
    IF ResolvedCurrency(currency) = "USD" THEN "1"
    ELSE r.reply[ResolvedCurrency(currency)]

\* The try block throws: require fails, or a lookup rejects.
RatesThrow(cs, r) ==
    \/ ~r.loadable
    \/ \E i \in LookupIndices(cs) : PromiseValue(cs[i], r) = Throw

\* A null result is stored as a zero rate instead of being skipped.
CollectRatesNullIsZero(cs, r) ==
    LET Last(k) == CHOOSE i \in 1..Len(cs) :
                       /\ cs[i] = k
                       /\ \A j \in 1..Len(cs) : cs[j] = k => j <= i
    IN  [k \in {cs[i] : i \in 1..Len(cs)} |->
            IF PromiseValue(cs[Last(k)], r) = Null THEN "0"
            ELSE PromiseValue(cs[Last(k)], r)]

\* result.forEach: a null result is logged and skipped, any other is stored
\* under currencies[i] (a later index overwrites an earlier one).
CollectRates(cs, r) ==
    LET kept == {i \in 1..Len(cs) : PromiseValue(cs[i], r) # Null}
        Last(k) == CHOOSE i \in kept :
                       /\ cs[i] = k
                       /\ \A j \in kept : cs[j] = k => j <= i
    IN  [k \in {cs[i] : i \in kept} |-> PromiseValue(cs[Last(k)], r)]

\* The catch block leaves exchangeRates as it was initialised.
getExchangeRatesToUSDEmptyOnError(cs, r) ==
    IF RatesThrow(cs, r) THEN <<>> ELSE CollectRates(cs, r)

getExchangeRatesToUSD(cs, r) ==
    IF RatesThrow(cs, r) THEN FallbackRates ELSE CollectRates(cs, r)

(***************************************************************************)
(* Numbers: Float.parseFloat of the decimal strings the model uses, as     *)
(* fractions in lowest terms. ok = FALSE stands for the exception it       *)
(* raises (NumberFormatException, or NullPointerException on null).        *)
(***************************************************************************)
Frac(n, d) == [ok |-> TRUE, num |-> n, den |-> d]
NotANumber == [ok |-> FALSE, num |-> 0, den |-> 1]

ParseFloat(s) ==
    CASE s = "0" -> Frac(0, 1)
      [] s = "1" -> Frac(1, 1)
      [] s = "1.0" -> Frac(1, 1)
      [] s = "5" -> Frac(5, 1)
      [] s = "10" -> Frac(10, 1)
      [] s = "0.1" -> Frac(1, 10)
      [] s = "-5" -> Frac(-5, 1)
      [] s = "2000000000" -> Frac(2000000000, 1)
      [] s = "0.14" -> Frac(7, 50)
      [] s = "1.12" -> Frac(28, 25)
      [] s = "1.22" -> Frac(61, 50)
      [] s = "0.0094" -> Frac(47, 5000)
      [] s = "0.00082" -> Frac(41, 50000)
      [] s = "0.72" -> Frac(18, 25)
      [] s = "200.0" -> Frac(200, 1)
      [] s = "0.15" -> Frac(3, 20)
      [] s = "1.10" -> Frac(11, 10)
      [] s = "1.25" -> Frac(5, 4)
      [] s = "0.0090" -> Frac(9, 1000)
      [] s = "0.00080" -> Frac(1, 1250)
      [] s = "0.75" -> Frac(3, 4)
      [] s = "1.01" -> Frac(101, 100)
      [] s = "250.0" -> Frac(250, 1)
      [] OTHER -> NotANumber

Mul(a, b) == Frac(a.num * b.num, a.den * b.den)

\* a < b, by whole parts first so that no product leaves the integer range.
Less(a, b) ==
    LET qa == a.num \div a.den
        qb == b.num \div b.den
    IN  \/ qa < qb
        \/ qa = qb /\ (a.num % a.den) * b.den < (b.num % b.den) * a.den

(***************************************************************************)
(* Documents of the index                                                  *)
(***************************************************************************)
Ids == {"1-000-1", "1-000-2"}
NoDoc == [exists |-> FALSE]

\* A listing as handed to Listing.index: the JSON listing data.
Listing(status, valid, scoreTags, title, category, amount, currency, commission) ==
    [status |-> status, valid |-> valid, scoreTags |-> scoreTags,
     title |-> title, description |-> "a listing", category |-> category,
     subCategory |-> "schema.general",
     price |-> [amount |-> amount, currency |-> [id |-> currency]],
     commissionPerUnit |-> commission,
     ipfs |-> "QmHash", availability |-> "jCal"]

\* scoring.scoreListing (lib/scoring): the static multiplier of a listing, a
\* function of its moderation tags and its content, in tenths.
scoreListing(listing) ==
    (IF listing.commissionPerUnit > 0 THEN 15 ELSE 10)
    + (IF "Boost" \in listing.scoreTags THEN 5 ELSE 0)
    - (IF listing.scoreTags \cap {"Hide", "Delete"} # {} THEN 10 ELSE 0)

\* delete listingToIndex.ipfs; delete listingToIndex.availability
StripVolatile(listing) ==
    [f \in DOMAIN listing \ {"ipfs", "availability"} |-> listing[f]]

\* The body Listing.index writes: the stripped copy with its scoreMultiplier.
listingToIndex(listing) ==
    [scoreMultiplier |-> scoreListing(StripVolatile(listing))] @@ StripVolatile(listing)

ListingPool ==
    { Listing("active", TRUE, {}, "bike", "forSale", "10", "fiat-USD", 1),
      Listing("active", TRUE, {"Boost"}, "car", "services", "0.1", "token-ETH", 0),
      Listing("withdrawn", TRUE, {}, "bike", "forSale", "10", "fiat-USD", 1),
      Listing("active", FALSE, {}, "bike", "forSale", "5", "fiat-EUR", 0),
      Listing("active", TRUE, {"Hide"}, "bike", "forSale", "10", "fiat-USD", 1),
      Listing("active", TRUE, {"Delete", "Boost"}, "car", "forSale", "5", "token-DAI", 1) }

(***************************************************************************)
(* Filters and the clauses of a boolean query                              *)
(***************************************************************************)
Filter(name, operator, value, valueType) ==
    [name |-> name, operator |-> operator, value |-> value, valueType |-> valueType]

FilterPool ==
    { Filter("price.amount", "GREATER_OR_EQUAL", "10", "FLOAT"),
      Filter("price.amount", "LESSER_OR_EQUAL", "5", "FLOAT"),
      Filter("category", "EQUALS", "forSale", "STRING"),
      Filter("category", "CONTAINS", "services,forRent", "ARRAY_STRING"),
      Filter("category", "CONTAINS", "forSale", "STRING") }

RECURSIVE SeqsUpTo(_, _)
SeqsUpTo(S, n) ==
    IF n = 0 THEN {<<>>}
    ELSE SeqsUpTo(S, n - 1) \cup
         {Append(s, x) : s \in {t \in SeqsUpTo(S, n - 1) : Len(t) = n - 1}, x \in S}

\* filter.value.split(',')
SplitComma(value) ==
    CASE value = "services,forRent" -> <<"services", "forRent">>
      [] OTHER -> <<value>>

\* One clause: kind, the field it tests, its values, its options.
Clause(kind, field, values, opts) ==
    [kind |-> kind, field |-> field, values |-> values, opts |-> opts]

\* The innerFilter built for one filter; {} when no branch matches.
EmptyClause == Clause("empty", "", <<>>, "")

InnerFilter(filter) ==
    IF filter.operator = "GREATER_OR_EQUAL"
    THEN Clause("range", filter.name, <<filter.value>>, "gte")
    ELSE IF filter.operator = "LESSER_OR_EQUAL"
    THEN Clause("range", filter.name, <<filter.value>>, "lte")
    ELSE IF filter.operator = "CONTAINS" /\ filter.valueType = "ARRAY_STRING"
    THEN Clause("bool_should_term", filter.name, SplitComma(filter.value), "")
    ELSE IF filter.operator = "EQUALS"
    THEN Clause("term", filter.name, <<filter.value>>, "")
    ELSE EmptyClause

HasQuery(query) == query # Undefined /\ query # ""

\* The query without the exclusion of moderated listings.
BaseQueryNoHidden(query) ==
    [must |-> IF HasQuery(query)
              THEN <<Clause("match", "all_text", <<query>>,
                            "fuzziness=AUTO,minimum_should_match=-20%")>>
              ELSE <<Clause("match_all", "", <<>>, "")>>,
     must_not |-> <<Clause("match", "status", <<"withdrawn">>, ""),
                    Clause("term", "valid", <<"false">>, "")>>,
     should |-> IF HasQuery(query)
                THEN <<Clause("match", "title", <<query>>, "boost=2,fuzziness=AUTO"),
                       Clause("match_phrase", "all_text", <<query>>, "slop=50")>>
                ELSE <<>>,
     filter |-> <<>>]

\* esQuery as search builds it before the filters are looked at.
BaseQuery(query) ==
    [must |-> IF HasQuery(query)
              THEN <<Clause("match", "all_text", <<query>>,
                            "fuzziness=AUTO,minimum_should_match=-20%")>>
              ELSE <<Clause("match_all", "", <<>>, "")>>,
     must_not |-> <<Clause("match", "status", <<"withdrawn">>, ""),
                    Clause("term", "valid", <<"false">>, ""),
                    Clause("terms", "scoreTags", <<"Hide", "Delete">>, "")>>,
     should |-> IF HasQuery(query)
                THEN <<Clause("match", "title", <<query>>, "boost=2,fuzziness=AUTO"),
                       Clause("match_phrase", "all_text", <<query>>, "slop=50")>>
                ELSE <<>>,
     filter |-> <<>>]

\* JSON.parse(JSON.stringify(q)): a fresh tree with the same arrays of
\* clauses (strings and arrays of strings survive the round trip).
JsonCloneClause(c) ==
    Clause(c.kind, c.field, [i \in 1..Len(c.values) |-> c.values[i]], c.opts)

JsonClone(q) ==
    [must |-> [i \in 1..Len(q.must) |-> JsonCloneClause(q.must[i])],
     must_not |-> [i \in 1..Len(q.must_not) |-> JsonCloneClause(q.must_not[i])],
     should |-> [i \in 1..Len(q.should) |-> JsonCloneClause(q.should[i])],
     filter |-> [i \in 1..Len(q.filter) |-> JsonCloneClause(q.filter[i])]]

\* filters.forEach: one innerFilter pushed per filter.
PushFilters(q, filters) ==
    [q EXCEPT !.filter = q.filter \o [i \in 1..Len(filters) |-> InnerFilter(filters[i])]]

\* esQuery and esAggregationQuery as search leaves them.
BuildEsQuery(query, filters) == PushFilters(BaseQuery(query), filters)

\* The clone taken after the filters were pushed.
BuildAggregationQueryAfterFilters(query, filters) ==
    JsonClone(BuildEsQuery(query, filters))

BuildAggregationQuery(query, filters) == JsonClone(BaseQuery(query))

(***************************************************************************)
(* getSortQuery                                                            *)
(***************************************************************************)
sortWhiteList == {"price.amount"}
orderWhiteList == {"asc", "desc"}

\* s && s.length > 0
NonEmpty(s) == s # Undefined /\ s # Null /\ s # ""

NoSort == [kind |-> "none"]

ScriptSort(order, rates) ==
    [kind |-> "_script", type |-> "number", order |-> order,
     params |-> [order |-> order, exchangeRates |-> rates]]

FieldSort(sort, order) == [kind |-> "field", field |-> sort, order |-> order]

\* Any non-empty sort and order are taken without the whitelist check.
SortQueryNoWhiteList(sort, order, rates) ==
    IF NonEmpty(sort) /\ NonEmpty(order)
    THEN IF sort = "price.amount" THEN ScriptSort(order, rates)
         ELSE FieldSort(sort, order)
    ELSE NoSort

\* What getSortQuery returns for sort, order and the rates it fetched.
SortQuery(sort, order, rates) ==
    IF NonEmpty(sort) /\ NonEmpty(order)
    THEN IF sort \in sortWhiteList /\ order \in orderWhiteList
         THEN IF sort = "price.amount" THEN ScriptSort(order, rates)
              ELSE FieldSort(sort, order)
         ELSE NoSort
    ELSE NoSort

\* The sentinel of the sort script's catch block.
SentinelAsc == 1000000000

SortSentinel(order) == IF order = "asc" THEN Frac(SentinelAsc, 1) ELSE Frac(0, 1)

\* The painless sort script on one document.
ScriptValue(doc, params) ==
    LET amount == ParseFloat(doc.price.amount)
        id == doc.price.currency.id
        rate == IF id \in DOMAIN params.exchangeRates
                THEN ParseFloat(params.exchangeRates[id])
                ELSE NotANumber
    IN  IF amount.ok /\ rate.ok THEN Mul(amount, rate)
        ELSE SortSentinel(params.order)

\* The script's try block completes on this document.
WellFormedPrice(doc, rates) ==
    /\ ParseFloat(doc.price.amount).ok
    /\ doc.price.currency.id \in DOMAIN rates
    /\ ParseFloat(rates[doc.price.currency.id]).ok

\* The engine puts a hit with value a before one with value b.
SortsBefore(a, b, order) == IF order = "asc" THEN Less(a, b) ELSE Less(b, a)

(***************************************************************************)
(* The index engine: which documents a boolean query matches               *)
(***************************************************************************)
FieldValue(doc, name) ==
    CASE name = "category" -> doc.category
      [] name = "subCategory" -> doc.subCategory
      [] name = "status" -> doc.status
      [] name = "title" -> doc.title
      [] name = "price.amount" -> doc.price.amount
      [] name = "valid" -> IF doc.valid THEN "true" ELSE "false"
      [] OTHER -> Undefined

InRange(value, bound, opts) ==
    LET v == ParseFloat(value)
        b == ParseFloat(bound)
    IN  /\ v.ok /\ b.ok
        /\ IF opts = "gte" THEN ~Less(v, b) ELSE ~Less(b, v)

ClauseMatches(c, doc) ==
    CASE c.kind = "match_all" -> TRUE
      [] c.kind = "empty" -> TRUE
      [] c.kind \in {"match", "match_phrase"} /\ c.field = "all_text" ->
            c.values[1] \in {doc.title, doc.description}
      [] c.kind = "match" /\ c.field # "all_text" ->
            FieldValue(doc, c.field) = c.values[1]
      [] c.kind = "term" -> FieldValue(doc, c.field) = c.values[1]
      [] c.kind = "terms" ->
            \E i \in 1..Len(c.values) : c.values[i] \in doc.scoreTags
      [] c.kind = "range" -> InRange(FieldValue(doc, c.field), c.values[1], c.opts)
      [] c.kind = "bool_should_term" ->
            \E i \in 1..Len(c.values) : FieldValue(doc, c.field) = c.values[i]
      [] OTHER -> FALSE

\* bool query: every must and filter clause, no must_not clause; the should
\* clauses only score, since a must clause is always present.
Matches(q, doc) ==
    /\ doc # NoDoc
    /\ \A i \in 1..Len(q.must) : ClauseMatches(q.must[i], doc)
    /\ \A i \in 1..Len(q.filter) : ClauseMatches(q.filter[i], doc)
    /\ \A i \in 1..Len(q.must_not) : ~ClauseMatches(q.must_not[i], doc)

Matching(q, store) == {id \in Ids : Matches(q, store[id])}

\* _source filtering: only the listed top-level fields come back.
SourceFilter(doc, fields) == [f \in DOMAIN doc \cap fields |-> doc[f]]

\* new Date().getTime(): the reading of the clock, in milliseconds.
Now == 2000000000

\* The seconds of one day, and the boost period of the score script.
Day == 24 * 60 * 60
boostPeriod == 18 * 24 * 60 * 60

\* A stored document that carries the event that created it.
Created(timestamp, doc) == [createdEvent |-> [timestamp |-> timestamp]] @@ doc

\* _score of the wrapped query: the must clause, and each should clause
\* the document matches.
Relevance(q, doc) ==
    Frac(1 + Cardinality({i \in 1..Len(q.should) : ClauseMatches(q.should[i], doc)}), 1)

\* The script of script_score: the stored multiplier (in tenths) when the
\* document has one, then the boost when 0 < age < boostPeriod, where
\* age = params.now - doc['createdEvent.timestamp'].value.
ScriptScore(score, doc, params) ==
    LET multiplied == IF "scoreMultiplier" \in DOMAIN doc
                      THEN Mul(score, Frac(doc.scoreMultiplier, 10)) ELSE score
        age == params.now - doc.createdEvent.timestamp
    IN  IF "createdEvent" \in DOMAIN doc /\ age > 0 /\ age < boostPeriod
        THEN Mul(multiplied, Frac(2 * boostPeriod + age, 2 * boostPeriod))
        ELSE multiplied

Hit(id, doc, body) ==
    [_id |-> id,
     _score |-> ScriptScore(Relevance(body.query, doc), doc, body.params),
     _source |-> SourceFilter(doc, body.source),
     sort |-> IF body.sort.kind = "_script"
              THEN ScriptValue(doc, body.sort.params) ELSE NotANumber]

Min(a, b) == IF a < b THEN a ELSE b
Max(a, b) == IF a > b THEN a ELSE b

\* The pages the engine may answer with: size hits of those after `from`.
Pages(matching, body) ==
    LET n == Min(body.size, Max(Cardinality(matching) - body.from, 0))
    IN  {page \in SUBSET matching : Cardinality(page) = n}

SearchResponse(page, matching, body, store) ==
    [hits |-> {Hit(id, store[id], body) : id \in page},
     total |-> Cardinality(matching)]

\* max / min aggregation over price.amount; NotANumber stands for null.
Amounts(matching, store) ==
    {ParseFloat(store[id].price.amount) : id \in
        {i \in matching : ParseFloat(store[i].price.amount).ok}}

AggregationResponse(matching, store) ==
    LET as == Amounts(matching, store)
    IN  [max_price |-> IF as = {} THEN NotANumber
                       ELSE CHOOSE a \in as : \A b \in as : ~Less(a, b),
         min_price |-> IF as = {} THEN NotANumber
                       ELSE CHOOSE a \in as : \A b \in as : ~Less(b, a)]

(***************************************************************************)
(* Listing.search                                                          *)
(***************************************************************************)
\* The callers of updateScoreTags.
Callers == {"moderatorA", "moderatorB"}

\* numberOfItems === -1 is replaced by this page size.
AllItems == 1000

SourceFields ==
    {"title", "description", "price", "commissionPerUnit", "scoreMultiplier", "scoreTags"}

NoRequest == [status |-> "none"]
NoResult == [returned |-> FALSE]

\* lodash get / property read on the filtered _source.
Get(source, field) == IF field \in DOMAIN source THEN source[field] ELSE Undefined

\* The projection pushed to listings for one hit.
ListingView(hit) ==
    [id |-> hit._id,
     title |-> Get(hit._source, "title"),
     category |-> Get(hit._source, "category"),
     subCategory |-> Get(hit._source, "subCategory"),
     description |-> Get(hit._source, "description"),
     price |->
        [amount |-> IF "price" \in DOMAIN hit._source
                       /\ hit._source.price.amount # Undefined
                    THEN hit._source.price.amount ELSE "0",
         currency |-> IF "price" \in DOMAIN hit._source
                         /\ hit._source.price.currency.id # Undefined
                      THEN hit._source.price.currency.id ELSE "fiat-USD"]]

\* The aggregated value as the engine gave it.
OrZeroKeepsNull(v) == v

\* value || 0
OrZero(v) == IF v.ok /\ v.num # 0 THEN v ELSE Frac(0, 1)

SearchBody(args, query, sort) ==
    [from |-> args.offset, size |-> args.numberOfItems, query |-> query,
     params |-> [now |-> Now], sort |-> sort, source |-> SourceFields]

AggregationBody(query) ==
    [query |-> query, source |-> {"_id"}, aggs |-> {"max_price", "min_price"}]

\* numberOfItems is sent as it was passed.
PageSizeUnchanged(numberOfItems) == numberOfItems

\* if (numberOfItems === -1) numberOfItems = 1000
PageSize(numberOfItems) == IF numberOfItems = -1 THEN AllItems ELSE numberOfItems

\* The synchronous start of search: both query trees are built, the page
\* size sentinel is replaced, getSortQuery is entered and
\* getExchangeRatesToUSD hands its lookups to the rate source. `after`
\* records which updateScoreTags calls had returned when search was called,
\* `pageSize` the numberOfItems argument as it was passed.
SearchCall(queries, filterLists, sorts, orders, sizes) ==
    /\ searchPc = "idle"
    /\ \E query \in queries, filters \in filterLists, sort \in sorts,
          order \in orders, numberOfItems \in sizes :
          /\ searchArgs' = [query |-> query, sort |-> sort, order |-> order,
                            filters |-> filters,
                            pageSize |-> numberOfItems,
                            numberOfItems |-> PageSize(numberOfItems),
                            offset |-> 0,
                            after |-> {c \in Callers : updPc[c] = "returned"}]
          /\ esQuery' = BuildEsQuery(query, filters)
          /\ esAggregationQuery' = BuildAggregationQuery(query, filters)
    /\ searchLookups' = IF redis.loadable THEN LookupKeys(currencies) ELSE {}
    /\ searchPc' = "sorting"
    /\ UNCHANGED <<index, redis, exchangeRates, sortQuery, searchRequest,
                   aggregationRequest, searchResult, issued, updVars, idxVars, ratesVars>>

\* The rate lookups settle: getExchangeRatesToUSD returns, getSortQuery
\* returns the sort.
GetSortQuery ==
    /\ searchPc = "sorting"
    /\ exchangeRates' = getExchangeRatesToUSD(currencies, redis)
    /\ sortQuery' = SortQuery(searchArgs.sort, searchArgs.order, exchangeRates')
    /\ searchPc' = "sorted"
    /\ UNCHANGED <<index, redis, searchArgs, esQuery, esAggregationQuery, searchLookups,
                   searchRequest, aggregationRequest, searchResult, issued,
                   updVars, idxVars, ratesVars>>

\* Only the ranked request is handed to the client before the await.
IssueRequestsSearchOnly ==
    /\ searchPc = "sorted"
    /\ searchRequest' = [status |-> "pending",
                         body |-> SearchBody(searchArgs, esQuery, sortQuery)]
    /\ issued' = issued \o <<"search">>
    /\ searchPc' = "awaiting"
    /\ UNCHANGED <<index, redis, searchArgs, esQuery, esAggregationQuery, searchLookups,
                   exchangeRates, sortQuery, aggregationRequest, searchResult,
                   updVars, idxVars, ratesVars>>

\* const searchRequest = client.search(...); const aggregationRequest =
\* client.search(...): both are handed to the client in the same turn, then
\* search awaits Promise.all of the two.
IssueRequests ==
    /\ searchPc = "sorted"
    /\ searchRequest' = [status |-> "pending",
                         body |-> SearchBody(searchArgs, esQuery, sortQuery)]
    /\ aggregationRequest' = [status |-> "pending",
                              body |-> AggregationBody(esAggregationQuery)]
    /\ issued' = issued \o <<"search", "aggregation">>
    /\ searchPc' = "awaiting"
    /\ UNCHANGED <<index, redis, searchArgs, esQuery, esAggregationQuery, searchLookups,
                   exchangeRates, sortQuery, searchResult, updVars, idxVars, ratesVars>>

\* The engine answers the ranked request from the store as it is now.
EngineSearch ==
    /\ searchRequest.status = "pending"
    /\ LET matching == Matching(searchRequest.body.query, index)
       IN  \E page \in Pages(matching, searchRequest.body) :
              searchRequest' =
                  [status |-> "resolved", body |-> searchRequest.body,
                   response |-> SearchResponse(page, matching, searchRequest.body, index)]
    /\ UNCHANGED <<index, redis, searchPc, searchArgs, esQuery, esAggregationQuery,
                   searchLookups, exchangeRates, sortQuery, aggregationRequest,
                   searchResult, issued, updVars, idxVars, ratesVars>>

\* The ranked request fails: engine unreachable or query refused.
EngineSearchFail ==
    /\ searchRequest.status = "pending"
    /\ searchRequest' = [status |-> "rejected", body |-> searchRequest.body]
    /\ UNCHANGED <<index, redis, searchPc, searchArgs, esQuery, esAggregationQuery,
                   searchLookups, exchangeRates, sortQuery, aggregationRequest,
                   searchResult, issued, updVars, idxVars, ratesVars>>

\* The engine answers the aggregation request.
EngineAggregate ==
    /\ aggregationRequest.status = "pending"
    /\ aggregationRequest' =
          [status |-> "resolved", body |-> aggregationRequest.body,
           response |-> AggregationResponse(
                            Matching(aggregationRequest.body.query, index), index)]
    /\ UNCHANGED <<index, redis, searchPc, searchArgs, esQuery, esAggregationQuery,
                   searchLookups, exchangeRates, sortQuery, searchRequest,
                   searchResult, issued, updVars, idxVars, ratesVars>>

EngineAggregateFail ==
    /\ aggregationRequest.status = "pending"
    /\ aggregationRequest' = [status |-> "rejected", body |-> aggregationRequest.body]
    /\ UNCHANGED <<index, redis, searchPc, searchArgs, esQuery, esAggregationQuery,
                   searchLookups, exchangeRates, sortQuery, searchRequest,
                   searchResult, issued, updVars, idxVars, ratesVars>>

\* Promise.all resolved: the hits are projected and the stats assembled.
SearchReturn ==
    /\ searchPc = "awaiting"
    /\ searchRequest.status = "resolved"
    /\ aggregationRequest.status = "resolved"
    /\ searchResult' =
          [returned |-> TRUE,
           listings |-> {ListingView(hit) : hit \in searchRequest.response.hits},
           stats |-> [maxPrice |-> OrZero(aggregationRequest.response.max_price),
                      minPrice |-> OrZero(aggregationRequest.response.min_price),
                      totalNumberOfListings |-> searchRequest.response.total]]
    /\ searchPc' = "done"
    /\ UNCHANGED <<index, redis, searchArgs, esQuery, esAggregationQuery, searchLookups,
                   exchangeRates, sortQuery, searchRequest, aggregationRequest, issued,
                   updVars, idxVars, ratesVars>>

\* Promise.all rejected: the await throws out of search.
SearchThrow ==
    /\ searchPc = "awaiting"
    /\ \/ searchRequest.status = "rejected"
       \/ aggregationRequest.status = "rejected"
    /\ searchPc' = "failed"
    /\ UNCHANGED <<index, redis, searchArgs, esQuery, esAggregationQuery, searchLookups,
                   exchangeRates, sortQuery, searchRequest, aggregationRequest,
                   searchResult, issued, updVars, idxVars, ratesVars>>

(***************************************************************************)
(* Listing.updateScoreTags                                                 *)
(***************************************************************************)
TagPool == {{"Hide"}, {"Boost"}}

NoUpdate == [status |-> "none"]

\* The script parameters of the partial update.
UpdateParams(doc, scoreTags) ==
    [scoreTags |-> scoreTags,
     scoreMultiplier |-> scoreListing([doc EXCEPT !.scoreTags = scoreTags])]

\* A script that assigns the tags alone.
ApplyScriptTagsOnly(doc, params) ==
    [doc EXCEPT !.scoreTags = params.scoreTags]

\* The painless update script applied to the stored document.
ApplyScript(doc, params) ==
    [doc EXCEPT !.scoreTags = params.scoreTags,
                !.scoreMultiplier = params.scoreMultiplier]

\* updateScoreTags is entered and hands its get to the client.
UpdCall(c) ==
    /\ updPc[c] = "idle"
    /\ \E id \in Ids, scoreTags \in TagPool :
          updArgs' = [updArgs EXCEPT ![c] = [id |-> id, scoreTags |-> scoreTags]]
    /\ updPc' = [updPc EXCEPT ![c] = "getting"]
    /\ UNCHANGED <<index, redis, searchVars, updListing, updateRequests, idxVars, ratesVars>>

\* The get resolves: the listing is re-tagged and re-scored, the partial
\* update is handed to the client and the listing is returned.
UpdGetResolved(c) ==
    /\ updPc[c] = "getting"
    /\ index[updArgs[c].id] # NoDoc
    /\ LET params == UpdateParams(index[updArgs[c].id], updArgs[c].scoreTags)
       IN  /\ updListing' = [updListing EXCEPT ![c] =
                                ApplyScript(index[updArgs[c].id], params)]
           /\ updateRequests' = [updateRequests EXCEPT ![c] =
                                    [status |-> "pending", id |-> updArgs[c].id,
                                     params |-> params]]
    /\ updPc' = [updPc EXCEPT ![c] = "returned"]
    /\ UNCHANGED <<index, redis, searchVars, updArgs, idxVars, ratesVars>>

\* The get rejects (engine unreachable, or no such document): the await throws.
UpdGetRejected(c) ==
    /\ updPc[c] = "getting"
    /\ updPc' = [updPc EXCEPT ![c] = "failed"]
    /\ UNCHANGED <<index, redis, searchVars, updArgs, updListing, updateRequests,
                   idxVars, ratesVars>>

\* The update replaces the stored document by the listing updateScoreTags
\* returned.
EngineUpdateWholeDocument(c) ==
    /\ updateRequests[c].status = "pending"
    /\ index[updateRequests[c].id] # NoDoc
    /\ index' = [index EXCEPT ![updateRequests[c].id] = updListing[c]]
    /\ updateRequests' = [updateRequests EXCEPT ![c].status = "applied"]
    /\ UNCHANGED <<redis, searchVars, updPc, updArgs, updListing, idxVars, ratesVars>>

\* The engine applies a pending partial update to the document as stored now.
EngineUpdate(c) ==
    /\ updateRequests[c].status = "pending"
    /\ index[updateRequests[c].id] # NoDoc
    /\ index' = [index EXCEPT ![updateRequests[c].id] =
                    ApplyScript(@, updateRequests[c].params)]
    /\ updateRequests' = [updateRequests EXCEPT ![c].status = "applied"]
    /\ UNCHANGED <<redis, searchVars, updPc, updArgs, updListing, idxVars, ratesVars>>

\* The partial update fails; nothing is listening to its promise.
EngineUpdateFail(c) ==
    /\ updateRequests[c].status = "pending"
    /\ updateRequests' = [updateRequests EXCEPT ![c].status = "rejected"]
    /\ UNCHANGED <<index, redis, searchVars, updPc, updArgs, updListing, idxVars, ratesVars>>

(***************************************************************************)
(* Listing.index                                                           *)
(***************************************************************************)
IndexPool ==
    { Listing("active", TRUE, {"Hide"}, "car", "services", "5", "token-DAI", 0) }

\* index is entered: the copy is stripped and scored, the write is handed
\* to the client and awaited.
IdxCall ==
    /\ idxPc = "idle"
    /\ \E listingId \in Ids, listing \in IndexPool :
          idxArgs' = [listingId |-> listingId, body |-> listingToIndex(listing)]
    /\ idxPc' = "indexing"
    /\ UNCHANGED <<index, redis, searchVars, updVars, ratesVars>>

\* client.index resolves: the document is replaced, listingId is returned.
IdxResolved ==
    /\ idxPc = "indexing"
    /\ index' = [index EXCEPT ![idxArgs.listingId] = idxArgs.body]
    /\ idxPc' = "done"
    /\ UNCHANGED <<redis, searchVars, updVars, idxArgs, ratesVars>>

\* client.index rejects: the await throws out of index.
IdxRejected ==
    /\ idxPc = "indexing"
    /\ idxPc' = "failed"
    /\ UNCHANGED <<index, redis, searchVars, updVars, idxArgs, ratesVars>>

(***************************************************************************)
(* A direct call of getExchangeRatesToUSD                                  *)
(***************************************************************************)
CurrencyLists ==
    { currencies,
      <<"token-USD", "fiat-EUR", "fiat-USD">>,
      <<"token-ETH", "fiat-KRW", "token-DAI", "token-ETH">>,
      <<"USD", "fiat-JPY">> }

\* The call is entered; the map callback hands the lookups to the rate source.
RatesCall ==
    /\ ratesPc = "idle"
    /\ \E cs \in CurrencyLists :
          /\ ratesCurrencies' = cs
          /\ ratesLookups' = IF redis.loadable THEN LookupKeys(cs) ELSE {}
    /\ ratesPc' = "awaiting"
    /\ UNCHANGED <<index, redis, searchVars, updVars, idxVars, ratesResult>>

\* Promise.all settles (or require threw): the mapping is returned.
RatesReturn ==
    /\ ratesPc = "awaiting"
    /\ ratesResult' = getExchangeRatesToUSD(ratesCurrencies, redis)
    /\ ratesPc' = "done"
    /\ UNCHANGED <<index, redis, searchVars, updVars, idxVars, ratesCurrencies, ratesLookups>>

(***************************************************************************)
(* The rate source                                                         *)
(***************************************************************************)
\* The rate the bridge server last wrote for a code.
LiveRate(code) ==
    CASE code = "CNY" -> "0.15"
      [] code = "EUR" -> "1.10"
      [] code = "GBP" -> "1.25"
      [] code = "JPY" -> "0.0090"
      [] code = "KRW" -> "0.00080"
      [] code = "SGD" -> "0.75"
      [] code = "DAI" -> "1.01"
      [] code = "ETH" -> "250.0"
      [] OTHER -> Null

\* A rate source that answers every code but those in `missing` (null) and
\* those in `failing` (the lookup rejects).
Redis(loadable, missing, failing) ==
    [loadable |-> loadable,
     reply |-> [code \in Codes |->
                   IF code \in failing THEN Throw
                   ELSE IF code \in missing THEN Null
                   ELSE LiveRate(code)]]

(***************************************************************************)
(* Specifications                                                          *)
(***************************************************************************)
\* Nothing has been called yet.
Idle ==
    /\ searchPc = "idle"
    /\ searchArgs = [query |-> Undefined, sort |-> Undefined, order |-> Undefined,
                     filters |-> <<>>, pageSize |-> 0, numberOfItems |-> 0, offset |-> 0,
                     after |-> {}]
    /\ esQuery = BaseQuery(Undefined)
    /\ esAggregationQuery = BaseQuery(Undefined)
    /\ searchLookups = {}
    /\ exchangeRates = <<>>
    /\ sortQuery = NoSort
    /\ searchRequest = NoRequest
    /\ aggregationRequest = NoRequest
    /\ searchResult = NoResult
    /\ issued = <<>>
    /\ updPc = [c \in Callers |-> "idle"]
    /\ updArgs = [c \in Callers |-> [id |-> Undefined, scoreTags |-> {}]]
    /\ updListing = [c \in Callers |-> NoDoc]
    /\ updateRequests = [c \in Callers |-> NoUpdate]
    /\ idxPc = "idle"
    /\ idxArgs = [listingId |-> Undefined, body |-> NoDoc]
    /\ ratesPc = "idle"
    /\ ratesCurrencies = <<>>
    /\ ratesLookups = {}
    /\ ratesResult = <<>>

SearchSteps ==
    \/ GetSortQuery
    \/ IssueRequests
    \/ EngineSearch
    \/ EngineSearchFail
    \/ EngineAggregate
    \/ EngineAggregateFail
    \/ SearchReturn
    \/ SearchThrow

\* Spec: one search, one index and two updateScoreTags calls, interleaved.
Init ==
    /\ Idle
    /\ redis = Redis(TRUE, {}, {})
    /\ index = [id \in Ids |->
                   IF id = "1-000-1"
                   THEN listingToIndex(Listing("active", TRUE, {}, "bike",
                                               "forSale", "10", "fiat-USD", 1))
                   ELSE NoDoc]

Next ==
    \/ SearchCall({Undefined}, {<<>>}, {Undefined}, {Undefined}, {-1})
    \/ SearchSteps
    \/ \E c \in Callers : UpdCall(c)
    \/ \E c \in Callers : UpdGetResolved(c)
    \/ \E c \in Callers : UpdGetRejected(c)
    \/ \E c \in Callers : EngineUpdate(c)
    \/ \E c \in Callers : EngineUpdateFail(c)
    \/ IdxCall
    \/ IdxResolved
    \/ IdxRejected

Spec == Init /\ [][Next]_vars

\* SpecQuery: one search over every query, filter list and stored document.
InitQuery ==
    /\ Idle
    /\ redis = Redis(TRUE, {}, {})
    /\ index \in [Ids -> {listingToIndex(l) : l \in ListingPool}]

NextQuery ==
    \/ SearchCall({Undefined, "", "bike"}, SeqsUpTo(FilterPool, MaxFilters),
                  {Undefined}, {Undefined}, {-1, 1})
    \/ SearchSteps

SpecQuery == InitQuery /\ [][NextQuery]_vars

\* SpecSort: one search over every sort, order and state of the rate source,
\* on documents with well-formed and malformed prices.
SortPool ==
    { Listing("active", TRUE, {}, "bike", "forSale", "10", "fiat-USD", 1),
      Listing("active", TRUE, {}, "bike", "forSale", "0.1", "token-ETH", 1),
      Listing("active", TRUE, {}, "bike", "forSale", "abc", "fiat-USD", 1),
      Listing("active", TRUE, {}, "bike", "forSale", "10", Undefined, 1),
      Listing("active", TRUE, {}, "bike", "forSale", "5", "fiat-KRW", 1),
      Listing("active", TRUE, {}, "bike", "forSale", "2000000000", "fiat-USD", 1),
      Listing("active", TRUE, {}, "bike", "forSale", "0", "token-DAI", 1) }

RedisPool ==
    { Redis(TRUE, {}, {}), Redis(FALSE, {}, {}), Redis(TRUE, {"KRW"}, {}),
      Redis(TRUE, {"ETH", "DAI"}, {}), Redis(TRUE, {}, {"ETH"}),
      Redis(TRUE, {"KRW"}, {"CNY"}), Redis(TRUE, {}, Codes) }

InitSort ==
    /\ Idle
    /\ redis \in RedisPool
    /\ index \in [Ids -> {listingToIndex(l) : l \in SortPool}]

NextSort ==
    \/ SearchCall({Undefined}, {<<>>},
                  {Undefined, Null, "", "price.amount", "createdEvent.timestamp"},
                  {Undefined, "", "asc", "desc", "ASC"}, {-1})
    \/ SearchSteps

SpecSort == InitSort /\ [][NextSort]_vars

\* SpecScore: one search over documents created at the time of the search,
\* half a boost period of milliseconds, 9 days and 19 days before it, and
\* documents without a creation event or without a multiplier.
ScoreListing == Listing("active", TRUE, {"Boost"}, "bike", "forSale", "10", "fiat-USD", 1)

ScorePool ==
    { Created(Now, listingToIndex(ScoreListing)),
      Created(Now - (boostPeriod \div 2), listingToIndex(ScoreListing)),
      Created(Now - 9 * Day * 1000, listingToIndex(ScoreListing)),
      Created(Now - 19 * Day * 1000, listingToIndex(ScoreListing)),
      listingToIndex(ScoreListing),
      Created(Now - 9 * Day * 1000, StripVolatile(ScoreListing)) }

InitScore ==
    /\ Idle
    /\ redis = Redis(TRUE, {}, {})
    /\ index \in [Ids -> ScorePool]

NextScore ==
    \/ SearchCall({Undefined, "bike", "car"}, {<<>>}, {Undefined}, {Undefined}, {-1})
    \/ SearchSteps

SpecScore == InitScore /\ [][NextScore]_vars

\* SpecRates: getExchangeRatesToUSD alone, over every state of the rate source.
InitRates ==
    /\ Idle
    /\ index = [id \in Ids |-> NoDoc]
    /\ \E loadable \in BOOLEAN, missing \in SUBSET (Codes \ {Undefined}),
          failing \in {{}} \cup {{code} : code \in Codes} :
          redis = Redis(loadable, missing, failing)

NextRates ==
    \/ RatesCall
    \/ RatesReturn

SpecRates == InitRates /\ [][NextRates]_vars

(***************************************************************************)
(* Properties                                                              *)
(***************************************************************************)
ClausesOf(seq) == {seq[i] : i \in 1..Len(seq)}

\* The three visibility exclusions.
Exclusions ==
    { Clause("match", "status", <<"withdrawn">>, ""),
      Clause("term", "valid", <<"false">>, ""),
      Clause("terms", "scoreTags", <<"Hide", "Delete">>, "") }

Hidden(doc) ==
    \/ doc.status = "withdrawn"
    \/ doc.valid = FALSE
    \/ doc.scoreTags \cap {"Hide", "Delete"} # {}

\* C1: for every query and filter list, the ranked query and the
\* aggregation query (as built and as sent) hold the three exclusions
\* withdrawn / invalid / Hide-Delete, and no listing search returns is a
\* withdrawn, invalid or hidden document.
C1_ExclusionsAlways ==
    /\ searchPc # "idle" =>
          /\ Exclusions \subseteq ClausesOf(esQuery.must_not)
          /\ Exclusions \subseteq ClausesOf(esAggregationQuery.must_not)
    /\ searchRequest.status # "none" =>
          Exclusions \subseteq ClausesOf(searchRequest.body.query.must_not)
    /\ aggregationRequest.status # "none" =>
          Exclusions \subseteq ClausesOf(aggregationRequest.body.query.must_not)
    /\ searchResult.returned =>
          \A l \in searchResult.listings : ~Hidden(index[l.id])

C1_Witness ==
    /\ searchResult.returned
    /\ searchArgs.query = "bike"
    /\ Len(searchArgs.filters) = MaxFilters
    /\ searchResult.listings # {}
    /\ \E id \in Ids : index[id].scoreTags = {"Hide"} /\ index[id].title = "bike"

C3_HiddenAfterReturn ==
    \A c \in Callers :
        ( /\ searchResult.returned
          /\ c \in searchArgs.after
          /\ updArgs[c].scoreTags = {"Hide"}
          /\ \A d \in Callers \ {c} : updPc[d] = "idle"
          /\ idxPc = "idle" )
        => \A l \in searchResult.listings : l.id # updArgs[c].id

\* C4: no operation returns normally when one of its index-engine calls
\* failed: search, index and updateScoreTags each fail towards the caller.
C4_EngineFailurePropagates ==
    /\ searchPc = "done" =>
          searchRequest.status = "resolved" /\ aggregationRequest.status = "resolved"
    /\ \/ searchRequest.status = "rejected"
       \/ aggregationRequest.status = "rejected"
       => searchPc \in {"awaiting", "failed"}
    /\ idxPc = "done" => index[idxArgs.listingId] # NoDoc
    /\ \A c \in Callers :
          updateRequests[c].status = "rejected" => updPc[c] = "failed"

\* C5: no response of either request is taken before both requests are with
\* the client; search returns only with both resolved; when either is
\* rejected search does not return and hands out no listings or stats.
C5_BothInFlightThenAll ==
    /\ searchPc = "awaiting" =>
          searchRequest.status # "none" /\ aggregationRequest.status # "none"
    /\ searchRequest.status # "none" \/ aggregationRequest.status # "none" =>
          issued = <<"search", "aggregation">>
    /\ searchPc = "done" <=> searchResult.returned
    /\ searchResult.returned =>
          searchRequest.status = "resolved" /\ aggregationRequest.status = "resolved"
    /\ searchPc = "failed" => searchResult = NoResult

C5_Witness ==
    /\ searchPc = "failed"
    /\ searchRequest.status = "resolved"
    /\ searchRequest.response.hits # {}
    /\ aggregationRequest.status = "rejected"

\* The rate source cannot be used: the client does not load or a lookup fails.
RateSourceUnreachable ==
    \/ ~redis.loadable
    \/ \E code \in Codes \ {Undefined} : redis.reply[code] = Throw

SupportedCurrencies == {currencies[i] : i \in 1..Len(currencies)}

\* C6: with the rate source unreachable getExchangeRatesToUSD returns the
\* fallback table, with a rate for each of the nine supported currencies,
\* and search fails only when one of its two index-engine requests failed.
C6_FallbackOnRateFailure ==
    /\ (searchPc \notin {"idle", "sorting"} /\ RateSourceUnreachable) =>
          /\ DOMAIN exchangeRates = SupportedCurrencies
          /\ Cardinality(DOMAIN exchangeRates) = 9
          /\ \A c \in SupportedCurrencies :
                exchangeRates[c] = FallbackRates[c] /\ ParseFloat(exchangeRates[c]).ok
    /\ searchPc = "failed" =>
          \/ searchRequest.status = "rejected"
          \/ aggregationRequest.status = "rejected"
    /\ searchPc = "sorting" => ENABLED GetSortQuery

C6_Witness ==
    /\ searchPc = "done"
    /\ redis.loadable
    /\ redis.reply["ETH"] = Throw
    /\ redis.reply["CNY"] # Throw
    /\ sortQuery.kind = "_script"
    /\ sortQuery.params.exchangeRates["token-ETH"] = "200.0"

USDKeys(cs) == {i \in 1..Len(cs) : ResolvedCurrency(cs[i]) = "USD"}

\* C7 (as claimed): a requested key quoted in USD is never looked up and is
\* returned as exactly "1" on every path.
C7_USDIsOneEverywhere ==
    ratesPc = "done" =>
        \A i \in USDKeys(ratesCurrencies) :
            /\ <<"USD", "-USD_price">> \notin ratesLookups
            /\ ratesCurrencies[i] \in DOMAIN ratesResult
            /\ ratesResult[ratesCurrencies[i]] = "1"

\* C7 (amended): a requested key quoted in USD is never looked up; when the
\* client loads and no lookup fails it is returned as exactly "1"; when the
\* fallback table is returned instead, fiat-USD is "1.0" and any other
\* USD-quoted key is absent.
C7_USDIsOneUnlessFallback ==
    ratesPc \in {"awaiting", "done"} =>
        /\ <<"USD", "-USD_price">> \notin ratesLookups
        /\ ratesPc = "done" =>
              \A i \in USDKeys(ratesCurrencies) :
                  IF /\ redis.loadable
                     /\ \A k \in ratesLookups : redis.reply[k[1]] # Throw
                  THEN /\ ratesCurrencies[i] \in DOMAIN ratesResult
                       /\ ratesResult[ratesCurrencies[i]] = "1"
                  ELSE /\ ratesResult = FallbackRates
                       /\ ratesCurrencies[i] = "fiat-USD" => ratesResult["fiat-USD"] = "1.0"
                       /\ ratesCurrencies[i] # "fiat-USD" =>
                             ratesCurrencies[i] \notin DOMAIN ratesResult

C7_Witness ==
    /\ ratesPc = "done"
    /\ ratesCurrencies = <<"token-USD", "fiat-EUR", "fiat-USD">>
    /\ redis.loadable
    /\ redis.reply["EUR"] = Null
    /\ ratesLookups = {<<"EUR", "-USD_price">>}
    /\ ratesResult = [c \in {"token-USD", "fiat-USD"} |-> "1"]

\* C8: when every lookup completes, the result leaves out exactly the
\* currencies whose lookup returned null and holds the looked-up rate of
\* every other requested currency; no rate in it is null or zero.
C8_NullOmittedOthersKept ==
    ( /\ ratesPc = "done"
      /\ redis.loadable
      /\ \A k \in ratesLookups : redis.reply[k[1]] # Throw )
    => LET requested == {ratesCurrencies[i] : i \in 1..Len(ratesCurrencies)}
           found == {c \in requested :
                        ResolvedCurrency(c) = "USD"
                        \/ redis.reply[ResolvedCurrency(c)] # Null}
       IN  /\ DOMAIN ratesResult = found
           /\ \A c \in found :
                 /\ ratesResult[c] = IF ResolvedCurrency(c) = "USD" THEN "1"
                                     ELSE LiveRate(ResolvedCurrency(c))
                 /\ ratesResult[c] \notin {Null, Undefined, "0", ""}

C8_Witness ==
    /\ ratesPc = "done"
    /\ ratesCurrencies = currencies
    /\ redis.loadable
    /\ \A code \in Codes : redis.reply[code] # Throw
    /\ redis.reply["KRW"] = Null
    /\ redis.reply["ETH"] = Null
    /\ DOMAIN ratesResult = SupportedCurrencies \ {"fiat-KRW", "token-ETH"}

\* C9: getSortQuery returns an explicit sort exactly when sort is
\* 'price.amount' and order is 'asc' or 'desc'; for every other pair it
\* returns the empty sort, the ranked request carries it, and search fails
\* only when one of its two index-engine requests failed.
C9_SortOnlyWhenWhitelisted ==
    /\ searchPc \notin {"idle", "sorting"} =>
          IF searchArgs.sort = "price.amount" /\ searchArgs.order \in {"asc", "desc"}
          THEN /\ sortQuery.kind = "_script"
               /\ sortQuery.order = searchArgs.order
          ELSE sortQuery = NoSort
    /\ searchRequest.status # "none" => searchRequest.body.sort = sortQuery
    /\ searchRequest.status = "resolved" /\ sortQuery = NoSort =>
          \A h \in searchRequest.response.hits : h.sort = NotANumber
    /\ searchPc = "failed" =>
          \/ searchRequest.status = "rejected"
          \/ aggregationRequest.status = "rejected"

C9_Witness ==
    /\ searchPc = "done"
    /\ searchArgs.sort = "createdEvent.timestamp"
    /\ searchArgs.order = "asc"
    /\ sortQuery = NoSort
    /\ searchResult.listings # {}

\* C10: under the price.amount sort a hit whose price is malformed (amount
\* unparsable, currency missing or without a rate) has the sort value
\* 1000000000 when order is asc and 0 when it is desc, and every hit with a
\* well-formed price is ordered before it.
C10_MalformedSortsLast ==
    (searchRequest.status = "resolved" /\ sortQuery.kind = "_script") =>
        \A h \in searchRequest.response.hits :
            ~WellFormedPrice(h._source, sortQuery.params.exchangeRates) =>
                /\ h.sort = IF searchArgs.order = "asc" THEN Frac(1000000000, 1)
                            ELSE Frac(0, 1)
                /\ \A g \in searchRequest.response.hits :
                      WellFormedPrice(g._source, sortQuery.params.exchangeRates) =>
                          SortsBefore(g.sort, h.sort, searchArgs.order)

\* Equal as numbers.
Same(a, b) == a.ok /\ b.ok /\ ~Less(a, b) /\ ~Less(b, a)

\* The factor the recency boost is to have for a document created `days`
\* days before now: 1 + (days / 18) * 0.5 inside the window, 1 outside.
RecencyFactor(days) ==
    IF days > 0 /\ days < 18 THEN Frac(36 + days, 36) ELSE Frac(1, 1)

\* The score a hit is to have when its document was created `days` days
\* before now.
ExpectedScore(hit, body, store, days) ==
    LET doc == store[hit._id]
        multiplier == IF "scoreMultiplier" \in DOMAIN doc
                      THEN Frac(doc.scoreMultiplier, 10) ELSE Frac(1, 1)
    IN  Mul(Mul(Relevance(body.query, doc), multiplier), RecencyFactor(days))

\* The hits of the ranked response whose document was created `days` days
\* before the now of the request.
HitsCreatedDaysAgo(days) ==
    IF searchRequest.status # "resolved" THEN {}
    ELSE {hit \in searchRequest.response.hits :
            /\ "createdEvent" \in DOMAIN index[hit._id]
            /\ index[hit._id].createdEvent.timestamp
                  = searchRequest.body.params.now - days * Day * 1000}

\* C11: the score of a hit is its base relevance times its scoreMultiplier
\* (1.0 when absent) times the recency factor, which is 1.0 for a document
\* created at now, 1.25 for one created 9 days before now and 1.0 for one
\* created 19 days before now.
C11_ScoreIsRelevanceTimesMultiplierTimesBoost ==
    \A days \in {0, 9, 19} : \A hit \in HitsCreatedDaysAgo(days) :
        Same(hit._score, ExpectedScore(hit, searchRequest.body, index, days))

\* The filters search knows how to translate.
Recognised(filter) ==
    \/ filter.operator \in {"GREATER_OR_EQUAL", "LESSER_OR_EQUAL", "EQUALS"}
    \/ filter.operator = "CONTAINS" /\ filter.valueType = "ARRAY_STRING"

\* C12: once search has built the ranked query, its filter list holds one
\* clause per filter with a recognised operator and value type, and no
\* entry for a filter that is not recognised.
C12_UnrecognisedFilterAddsNothing ==
    searchPc # "idle" =>
        /\ Len(esQuery.filter)
              = Cardinality({i \in 1..Len(searchArgs.filters) :
                                Recognised(searchArgs.filters[i])})
        /\ EmptyClause \notin ClausesOf(esQuery.filter)

\* C13: every listing search returns carries the id, title, category,
\* subCategory, description and price of the document the index holds
\* under that id.
C13_ListingCarriesIndexedFields ==
    searchPc = "done" =>
        \A l \in searchResult.listings :
            /\ index[l.id] # NoDoc
            /\ l.title = index[l.id].title
            /\ l.category = index[l.id].category
            /\ l.subCategory = index[l.id].subCategory
            /\ l.description = index[l.id].description
            /\ l.price.amount = index[l.id].price.amount
            /\ l.price.currency = index[l.id].price.currency.id

\* C14: a pageSize of -1 is sent to the engine as size 1000 and at most 1000
\* listings are returned; every other pageSize is sent unchanged, and no
\* more listings than the size sent are returned.
C14_PageSizeSentinel ==
    /\ searchRequest.status # "none" =>
          searchRequest.body.size
            = (IF searchArgs.pageSize = -1 THEN 1000 ELSE searchArgs.pageSize)
    /\ searchPc = "done" =>
          Cardinality(searchResult.listings) <= searchRequest.body.size

C14_Witness ==
    /\ searchPc = "done"
    /\ searchArgs.pageSize = -1
    /\ searchRequest.body.size = 1000
    /\ Cardinality(searchResult.listings) = 2

\* C15: the minPrice and maxPrice of a returned result are numbers, and
\* both are 0 when the aggregation found no price (its values are null).
C15_StatsAreNumbers ==
    searchPc = "done" =>
        /\ searchResult.stats.maxPrice.ok
        /\ searchResult.stats.minPrice.ok
        /\ aggregationRequest.response.max_price = NotANumber =>
              searchResult.stats.maxPrice = Frac(0, 1)
        /\ aggregationRequest.response.min_price = NotANumber =>
              searchResult.stats.minPrice = Frac(0, 1)

C15_Witness ==
    /\ searchPc = "done"
    /\ aggregationRequest.response.max_price = NotANumber
    /\ aggregationRequest.response.min_price = NotANumber
    /\ searchResult.stats.maxPrice = Frac(0, 1)
    /\ searchResult.stats.minPrice = Frac(0, 1)

\* The request resolves to the price.amount sort.
ResolvesToPriceSort ==
    /\ NonEmpty(searchArgs.sort) /\ NonEmpty(searchArgs.order)
    /\ searchArgs.sort = "price.amount"
    /\ searchArgs.order \in orderWhiteList

\* C16: search asks the rate source for rates only when the request
\* resolves to the price.amount sort; on any other request no lookup is
\* handed to the rate source.
C16_RatesOnlyForPriceSort ==
    (searchPc # "idle" /\ ~ResolvesToPriceSort) => searchLookups = {}

\* The engine applies the update of caller c in this step.
Applies(c) ==
    /\ updateRequests[c].status = "pending"
    /\ updateRequests'[c].status = "applied"

\* The stored document after an update with these tags and this multiplier
\* and no other change.
Retagged(doc, scoreTags, scoreMultiplier) ==
    [f \in DOMAIN doc |->
        IF f = "scoreTags" THEN scoreTags
        ELSE IF f = "scoreMultiplier" THEN scoreMultiplier
        ELSE doc[f]]

\* C17: the update of updateScoreTags, when the engine applies it, sets
\* scoreTags to the tags passed and scoreMultiplier to the score of the
\* document that was read with its tags replaced, and leaves every other
\* field of the document as stored at that moment, and every other
\* document, unchanged.
C17_PartialUpdate ==
    [][\A c \in Callers :
          Applies(c) =>
              index' = [index EXCEPT ![updArgs[c].id] =
                           Retagged(@, updArgs[c].scoreTags,
                                    scoreListing(updListing[c]))]]_vars

\* The update of moderatorA was computed from the bike listing and applied
\* to the car listing that Listing.index wrote in between.
C17_Witness ==
    /\ updateRequests["moderatorA"].status = "applied"
    /\ updateRequests["moderatorB"].status = "none"
    /\ updArgs["moderatorA"].scoreTags = {"Boost"}
    /\ updListing["moderatorA"].title = "bike"
    /\ idxPc = "done"
    /\ idxArgs.listingId = updArgs["moderatorA"].id
    /\ index[updArgs["moderatorA"].id]
          = Retagged(idxArgs.body, {"Boost"},
                     scoreListing(updListing["moderatorA"]))

\* The scoreTags and scoreMultiplier of a document or of script parameters.
ScorePair(r) == <<r.scoreTags, r.scoreMultiplier>>

\* C18: when the engine applies the second of two updateScoreTags updates
\* of the same listing, the stored scoreTags and scoreMultiplier are both
\* those of that update, not the tags of one and the multiplier of the
\* other.
C18_LastUpdateWinsWhole ==
    [][\A c \in Callers : \A d \in Callers \ {c} :
          (/\ Applies(c)
           /\ updateRequests[d].status = "applied"
           /\ updateRequests[d].id = updateRequests[c].id)
          => ScorePair(index'[updateRequests[c].id])
               = ScorePair(updateRequests[c].params)]_vars

\* Both updates of listing 1-000-1 are applied, with different tags and
\* different multipliers, and the document holds the pair of moderatorB.
C18_Witness ==
    /\ \A c \in Callers :
          /\ updateRequests[c].status = "applied"
          /\ updateRequests[c].id = "1-000-1"
    /\ updateRequests["moderatorA"].params.scoreTags
          # updateRequests["moderatorB"].params.scoreTags
    /\ updateRequests["moderatorA"].params.scoreMultiplier
          # updateRequests["moderatorB"].params.scoreMultiplier
    /\ idxPc = "idle"
    /\ ScorePair(index["1-000-1"]) = ScorePair(updateRequests["moderatorB"].params)

====
